---- MODULE Spec2Model ----
(***************************************************************************)
(* Particle-Lenia (src/src/main.rs): the per-frame pipeline                *)
(*   reset_fields -> calculate_fields -> {update_position, update_size}    *)
(* over a small world of creatures and particles.                          *)
(*                                                                         *)
(* f32 values are modelled as fixed-point numbers with SCALE units per 1.0,*)
(* together with the IEEE special values NaN and +/-Inf.  Products and     *)
(* quotients round toward zero, which keeps the sign symmetry of IEEE      *)
(* rounding:  (-a)*b = -(a*b).                                             *)
(***************************************************************************)
EXTENDS Integers, Sequences, FiniteSets

\* ------------------------------------------------------------------ bounds
MaxParticles == 3
MaxCreatures == 2
MaxFrames == 2

\* -------------------------------------------------------------- f32 values
SCALE == 1000

Fin(n) == [k |-> "fin", v |-> n]
NaN == [k |-> "nan", v |-> 0]
Inf(s) == [k |-> "inf", v |-> s]

IsFin(a) == a.k = "fin"
IsNaN(a) == a.k = "nan"
IsInf(a) == a.k = "inf"

Abs(n) == IF n < 0 THEN -n ELSE n
Sgn(n) == IF n < 0 THEN -1 ELSE IF n > 0 THEN 1 ELSE 0
\* sign of a non-NaN value; zero counts as positive (signed zeros are not kept)
SignOf(a) == IF a.v < 0 THEN -1 ELSE 1
\* n / d rounded toward zero
TruncDiv(n, d) == Sgn(n) * Sgn(d) * (Abs(n) \div Abs(d))

FNeg(a) == IF IsNaN(a) THEN NaN ELSE [a EXCEPT !.v = -a.v]

FAdd(a, b) ==
    IF IsNaN(a) \/ IsNaN(b) THEN NaN
    ELSE IF IsInf(a) /\ IsInf(b) THEN (IF a.v = b.v THEN a ELSE NaN)
    ELSE IF IsInf(a) THEN a
    ELSE IF IsInf(b) THEN b
    ELSE Fin(a.v + b.v)

FSub(a, b) == FAdd(a, FNeg(b))

FMul(a, b) ==
    IF IsNaN(a) \/ IsNaN(b) THEN NaN
    ELSE IF IsInf(a) \/ IsInf(b)
         THEN (IF a.v = 0 \/ b.v = 0 THEN NaN ELSE Inf(SignOf(a) * SignOf(b)))
    ELSE Fin(TruncDiv(a.v * b.v, SCALE))

FDiv(a, b) ==
    IF IsNaN(a) \/ IsNaN(b) THEN NaN
    ELSE IF IsInf(a) THEN (IF IsInf(b) THEN NaN ELSE Inf(SignOf(a) * SignOf(b)))
    ELSE IF IsInf(b) THEN Fin(0)
    ELSE IF b.v = 0 THEN (IF a.v = 0 THEN NaN ELSE Inf(SignOf(a)))
    ELSE Fin(TruncDiv(a.v * SCALE, b.v))

\* a < b on f32: false as soon as one side is NaN
FLt(a, b) ==
    IF IsNaN(a) \/ IsNaN(b) THEN FALSE
    ELSE IF IsInf(a) THEN a.v < 0 /\ ~(IsInf(b) /\ b.v < 0)
    ELSE IF IsInf(b) THEN b.v > 0
    ELSE a.v < b.v

\* f32::max: a NaN operand is ignored
FMax(a, b) ==
    IF IsNaN(a) THEN b
    ELSE IF IsNaN(b) THEN a
    ELSE IF FLt(a, b) THEN b ELSE a

RECURSIVE IsqrtB(_, _, _)
IsqrtB(n, lo, hi) ==
    IF lo >= hi THEN lo
    ELSE LET mid == (lo + hi + 1) \div 2
         IN  IF mid * mid <= n THEN IsqrtB(n, mid, hi) ELSE IsqrtB(n, lo, mid - 1)

Isqrt(n) == IsqrtB(n, 0, IF n < 46340 THEN n ELSE 46340)

FSqrt(a) ==
    IF IsNaN(a) THEN NaN
    ELSE IF IsInf(a) THEN (IF a.v > 0 THEN a ELSE NaN)
    ELSE IF a.v < 0 THEN NaN
    ELSE Fin(Isqrt(a.v * SCALE))

\* e^n in fixed point, n = 0 .. 12
EPow == << 1000, 2718, 7389, 20086, 54598, 148413, 403429, 1096633, 2980958,
           8103084, 22026466, 59874142, 162754791 >>

\* the largest magnitude the fixed-point format holds
Huge == 2000000000

RECURSIVE ExpSeries(_, _, _, _)
\* sum of the Taylor terms f^i / i! for i >= i0, given term = f^(i0-1)/(i0-1)!
ExpSeries(f, term, i, acc) ==
    IF term = 0 \/ i > 12 THEN acc
    ELSE LET next == (term * f) \div (i * SCALE)
         IN  ExpSeries(f, next, i + 1, acc + next)

\* e^(x/SCALE) * SCALE for x >= 0, saturating at Huge
ExpFx(x) ==
    IF x >= Len(EPow) * SCALE THEN Huge
    ELSE LET e == EPow[(x \div SCALE) + 1]
             s == ExpSeries(x % SCALE, SCALE, 1, SCALE)
         IN  (e \div SCALE) * s + ((e % SCALE) * s) \div SCALE

FExp(a) ==
    IF IsNaN(a) THEN NaN
    ELSE IF IsInf(a) THEN (IF a.v > 0 THEN a ELSE Fin(0))
    ELSE IF a.v >= 0 THEN Fin(ExpFx(a.v))
    ELSE Fin((SCALE * SCALE) \div ExpFx(-a.v))

\* -------------------------------------------------------------------- Vec3
Vec(x, y, z) == << Fin(x), Fin(y), Fin(z) >>
VZero == Vec(0, 0, 0)
VAdd(a, b) == << FAdd(a[1], b[1]), FAdd(a[2], b[2]), FAdd(a[3], b[3]) >>
VSub(a, b) == << FSub(a[1], b[1]), FSub(a[2], b[2]), FSub(a[3], b[3]) >>
VNeg(a) == << FNeg(a[1]), FNeg(a[2]), FNeg(a[3]) >>
\* Vec3 * f32 and Vec3 / f32
VMulS(a, s) == << FMul(a[1], s), FMul(a[2], s), FMul(a[3], s) >>
VDivS(a, s) == << FDiv(a[1], s), FDiv(a[2], s), FDiv(a[3], s) >>
\* Vec3::distance: the length of the difference
VDistance(a, b) ==
    LET d == VSub(a, b)
    IN  FSqrt(FAdd(FAdd(FMul(d[1], d[1]), FMul(d[2], d[2])), FMul(d[3], d[3])))
VIsFin(a) == IsFin(a[1]) /\ IsFin(a[2]) /\ IsFin(a[3])

\* ------------------------------------------------------ Parameters, Fields
DefaultParameters ==
    [ mu_k |-> Fin(4000), sigma_k |-> Fin(1000), w_k |-> Fin(22),
      mu_g |-> Fin(600), sigma_g |-> Fin(150), c_rep |-> Fin(1000) ]

\* a second parameter set: a short attraction range and a strong kernel, so
\* that the growth term is visible with a handful of particles
StrongParameters ==
    [ mu_k |-> Fin(1000), sigma_k |-> Fin(1000), w_k |-> Fin(500),
      mu_g |-> Fin(600), sigma_g |-> Fin(150), c_rep |-> Fin(2000) ]

\* the Parameters of the entities that may be creatures: the two sets alternate
ParametersOf(c) == IF c % 2 = 1 THEN DefaultParameters ELSE StrongParameters

DefaultFields ==
    [ R_val |-> Fin(0), R_grad |-> VZero,
      U_val |-> Fin(0), U_grad |-> VZero,
      E_grad |-> VZero ]

\* ----------------------------------------------------------------- kernels
\* mutant of repulsion_field: the value has the sign of the derivative
repulsion_field_Negative(r, c_rep) ==
    LET t == FMax(Fin(0), FSub(Fin(SCALE), r))
    IN  << FMul(FMul(FMul(Fin(-(SCALE \div 2)), c_rep), t), t),
           FMul(FNeg(c_rep), t) >>

repulsion_field(r, c_rep) ==
    LET t == FMax(Fin(0), FSub(Fin(SCALE), r))
    IN  << FMul(FMul(FMul(Fin(SCALE \div 2), c_rep), t), t),
           FMul(FNeg(c_rep), t) >>

radial_field(x, mu, sigma, w) ==
    LET t == FDiv(FSub(x, mu), sigma)
        y == FDiv(w, FExp(FMul(t, t)))
    IN  << y, FDiv(FMul(FMul(Fin(-2 * SCALE), t), y), sigma) >>

\* ------------------------------------------------------------------- world
Particles == 1 .. MaxParticles
\* entities that may carry children; one of them may lack Creature/Parameters
Creatures == 1 .. MaxCreatures
NoParent == 0

\* initial translations: the origin, a point at distance 0.5 from it and a
\* point at distance 3 from it
StartPositions == { Vec(0, 0, 0), Vec(300, 400, 0), Vec(3000, 0, 0) }

VARIABLES
    parent,         \* particle -> its Parent entity, NoParent without one
    hasParameters,  \* entity -> whether it carries Creature and Parameters
    params,         \* creature -> Parameters
    pos,            \* particle -> Transform.translation
    fields,         \* particle -> Fields
    radius,         \* particle -> radius of its Circle mesh
    stage,          \* position in the Update schedule
    todo,           \* calculate_fields: creatures the outer loop has not visited
    cur,            \* calculate_fields: creature being processed, 0 for none
    pidx,           \* calculate_fields: pairs of cur already processed
    gidx,           \* calculate_fields: children of cur already growth-corrected
    pending,        \* systems ordered after calculate_fields that have not run
    frame,          \* number of the current frame
    pos0,           \* history: translations at the start of the frame
    pairLog,        \* history: <<creature, i, j>> of each pair processed this frame
    lastReset       \* history: the frame in which reset_fields last completed

vars == << parent, hasParameters, params, pos, fields, radius, stage, todo, cur,
           pidx, gidx, pending, frame, pos0, pairLog, lastReset >>

world == << parent, hasParameters, params >>

RECURSIVE AllOwnedFrom(_, _)
AllOwnedFrom(par, p) ==
    IF p > MaxParticles THEN << >>
    ELSE (IF par[p] # 0 THEN << p >> ELSE << >>) \o AllOwnedFrom(par, p + 1)

\* mutant of Children: a creature iterates over the particles of every creature
Children_OfAnyone(par, c) ==
    IF \E p \in 1 .. MaxParticles : par[p] = c THEN AllOwnedFrom(par, 1) ELSE << >>

RECURSIVE ChildrenFrom(_, _, _)
\* the Children of entity c, in spawn order
ChildrenFrom(par, c, p) ==
    IF p > MaxParticles THEN << >>
    ELSE (IF par[p] = c THEN << p >> ELSE << >>) \o ChildrenFrom(par, c, p + 1)

Children(par, c) == ChildrenFrom(par, c, 1)

\* Query<(&Parameters, &Children), With<Creature>>
CreatureQuery(par, hasP) == { c \in Creatures : hasP[c] /\ Len(Children(par, c)) > 0 }

\* ------------------------------------------------------------ reset_fields
\* mutant of ResetOne: the accumulators are cleared to zero instead of being
\* set to the kernels' values at zero
ResetOne_Zero(prm) == DefaultFields

\* the body of the closure: the Fields of one particle under its creature's
\* Parameters
ResetOne(prm) ==
    [ R_val |-> repulsion_field(Fin(0), prm.c_rep)[1],
      R_grad |-> VZero,
      U_val |-> radial_field(Fin(0), prm.mu_k, prm.sigma_k, prm.w_k)[1],
      U_grad |-> VZero,
      E_grad |-> VZero ]

\* mutant of ResetAll: the gradient accumulators are not cleared
ResetAll_KeepGradients(par, prms, f) ==
    [ p \in Particles |->
        IF par[p] = NoParent THEN f[p]
        ELSE [ ResetOne(prms[par[p]]) EXCEPT !.R_grad = f[p].R_grad,
                                             !.U_grad = f[p].U_grad ] ]

\* the query matches the particles that have a Parent; the others keep their Fields
ResetAll(par, prms, f) ==
    [ p \in Particles |-> IF par[p] = NoParent THEN f[p] ELSE ResetOne(prms[par[p]]) ]

\* creature_query.get(parent.get()).unwrap() on a parent without Parameters
ResetPanics(par, hasP) ==
    \E p \in Particles : par[p] # NoParent /\ ~hasP[par[p]]

\* -------------------------------------------------------- calculate_fields
\* mutant of SkipSeq: off by one, the inner iterator starts at the child itself
SkipSeq_OffByOne(s, k) == SubSeq(s, k, Len(s))

SkipSeq(s, k) == SubSeq(s, k + 1, Len(s))
\* iter::zip(iter::repeat(child), rest)
ZipRepeat(child, rest) == [ x \in 1 .. Len(rest) |-> << child, rest[x] >> ]

RECURSIVE FlatMapPairs(_, _)
\* children.iter().enumerate().flat_map(..), from the 0-based index on
FlatMapPairs(ch, index) ==
    IF index >= Len(ch) THEN << >>
    ELSE ZipRepeat(ch[index + 1], SkipSeq(ch, index + 1)) \o FlatMapPairs(ch, index + 1)

PairList(ch) == FlatMapPairs(ch, 0)

\* mutant of PairUpdate: the gradients of j are added instead of subtracted
PairUpdate_SameSign(f, ps, prm, i, j) ==
    LET r == VDistance(ps[i], ps[j])
        r_grad == VDivS(VSub(ps[i], ps[j]), r)
        rep == repulsion_field(r, prm.c_rep)
        fR == IF FLt(r, Fin(SCALE))
              THEN [ f EXCEPT ![i].R_val = FAdd(@, rep[1]),
                              ![j].R_val = FAdd(@, rep[1]),
                              ![i].R_grad = VAdd(@, VMulS(r_grad, rep[2])),
                              ![j].R_grad = VAdd(@, VMulS(r_grad, rep[2])) ]
              ELSE f
        ker == radial_field(r, prm.mu_k, prm.sigma_k, prm.w_k)
    IN  [ fR EXCEPT ![i].U_val = FAdd(@, ker[1]),
                    ![j].U_val = FAdd(@, ker[1]),
                    ![i].U_grad = VAdd(@, VMulS(r_grad, ker[2])),
                    ![j].U_grad = VAdd(@, VMulS(r_grad, ker[2])) ]

\* the body of the pair loop for (child_i, child_j) = (i, j)
PairUpdate(f, ps, prm, i, j) ==
    LET r == VDistance(ps[i], ps[j])
        r_grad == VDivS(VSub(ps[i], ps[j]), r)
        rep == repulsion_field(r, prm.c_rep)
        fR == IF FLt(r, Fin(SCALE))
              THEN [ f EXCEPT ![i].R_val = FAdd(@, rep[1]),
                              ![j].R_val = FAdd(@, rep[1]),
                              ![i].R_grad = VAdd(@, VMulS(r_grad, rep[2])),
                              ![j].R_grad = VSub(@, VMulS(r_grad, rep[2])) ]
              ELSE f
        ker == radial_field(r, prm.mu_k, prm.sigma_k, prm.w_k)
    IN  [ fR EXCEPT ![i].U_val = FAdd(@, ker[1]),
                    ![j].U_val = FAdd(@, ker[1]),
                    ![i].U_grad = VAdd(@, VMulS(r_grad, ker[2])),
                    ![j].U_grad = VSub(@, VMulS(r_grad, ker[2])) ]

\* the body of the second loop for one child
GrowthUpdate(f, prm, p) ==
    LET dG == radial_field(f[p].U_val, prm.mu_g, prm.sigma_g, Fin(SCALE))[2]
    IN  [ f EXCEPT ![p].E_grad = VSub(f[p].R_grad, VMulS(f[p].U_grad, dG)) ]

\* mutant of PairsExhausted: the two loops are fused, a child may be corrected
\* while pairs are still to come
PairsExhausted_Fused(ch, n) == TRUE

\* the second loop starts when the pair iterator of the creature is exhausted
PairsExhausted(ch, n) == n >= Len(PairList(ch))

\* --------------------------------------------- update_position, update_size
\* mutant of MoveOne: the particle climbs the gradient
MoveOne_Uphill(x, f) == VAdd(x, VMulS(f.E_grad, Fin(SCALE \div 10)))

MoveOne(x, f) == VAdd(x, VMulS(VNeg(f.E_grad), Fin(SCALE \div 10)))

MoveAll(ps, f) == [ p \in Particles |-> MoveOne(ps[p], f[p]) ]

SizeOne(prm, f) == FDiv(prm.c_rep, FMul(f.R_val, Fin(5 * SCALE)))

SizeAll(par, hasP, prms, f, rad) ==
    [ p \in Particles |->
        IF par[p] \in CreatureQuery(par, hasP) THEN SizeOne(prms[par[p]], f[p])
        ELSE rad[p] ]

\* systems of main() that are ordered after calculate_fields
AfterCalculate == { "update_position", "update_size" }

\* with_children spawns the particles of a creature one after the other: in
\* spawn order the particles of creature 1 come first, then those of creature
\* 2, .., and last the particles without a parent
SpawnRank(x) == IF x = NoParent THEN MaxCreatures + 1 ELSE x

\* ------------------------------------------------------------------- Init
Init ==
    /\ parent \in [Particles -> {NoParent} \cup Creatures]
    /\ \A p, q \in Particles : p < q => SpawnRank(parent[p]) <= SpawnRank(parent[q])
    /\ hasParameters \in [Creatures -> BOOLEAN]
    /\ \A c \in Creatures : c < MaxCreatures => hasParameters[c]
    /\ params = [c \in Creatures |-> ParametersOf(c)]
    /\ pos \in [Particles -> StartPositions]
    /\ fields = [p \in Particles |-> DefaultFields]
    /\ radius = [p \in Particles |-> Fin(SCALE \div 2)]
    /\ stage = "reset"
    /\ todo = {}
    /\ cur = 0
    /\ pidx = 0
    /\ gidx = 0
    /\ pending = {}
    /\ frame = 1
    /\ pos0 = pos
    /\ pairLog = << >>
    /\ lastReset = 0

\* ---------------------------------------------------------------- actions
reset_fields ==
    /\ stage = "reset"
    /\ IF ResetPanics(parent, hasParameters)
       THEN /\ stage' = "panicked"
            /\ UNCHANGED << fields, todo, lastReset >>
       ELSE /\ stage' = "calculate"
            /\ fields' = ResetAll(parent, params, fields)
            /\ todo' = CreatureQuery(parent, hasParameters)
            /\ lastReset' = frame
    /\ UNCHANGED << world, pos, radius, cur, pidx, gidx, pending, frame, pos0, pairLog >>

\* the outer loop takes the next creature of the query, in spawn order
calculate_fields_creature(c) ==
    /\ stage = "calculate"
    /\ cur = 0
    /\ c \in todo
    /\ \A d \in todo : c <= d
    /\ cur' = c
    /\ todo' = todo \ {c}
    /\ pidx' = 0
    /\ gidx' = 0
    /\ UNCHANGED << world, pos, fields, radius, stage, pending, frame, pos0, pairLog, lastReset >>

\* one iteration of the pair loop
calculate_fields_pair ==
    /\ stage = "calculate"
    /\ cur # 0
    /\ pidx < Len(PairList(Children(parent, cur)))
    /\ LET pr == PairList(Children(parent, cur))[pidx + 1]
       IN  /\ fields' = PairUpdate(fields, pos, params[cur], pr[1], pr[2])
           /\ pairLog' = Append(pairLog, << cur, pr[1], pr[2] >>)
    /\ pidx' = pidx + 1
    /\ UNCHANGED << world, pos, radius, stage, todo, cur, gidx, pending, frame, pos0, lastReset >>

\* one iteration of the growth loop; after the last child the creature is done
calculate_fields_growth ==
    /\ stage = "calculate"
    /\ cur # 0
    /\ PairsExhausted(Children(parent, cur), pidx)
    /\ gidx < Len(Children(parent, cur))
    /\ fields' = GrowthUpdate(fields, params[cur], Children(parent, cur)[gidx + 1])
    /\ gidx' = gidx + 1
    /\ cur' = IF gidx + 1 = Len(Children(parent, cur)) THEN 0 ELSE cur
    /\ UNCHANGED << world, pos, radius, stage, todo, pidx, pending, frame, pos0, pairLog, lastReset >>

\* the outer loop is over: the systems ordered after calculate_fields may run
calculate_fields_return ==
    /\ stage = "calculate"
    /\ cur = 0
    /\ todo = {}
    /\ stage' = "update"
    /\ pending' = AfterCalculate
    /\ UNCHANGED << world, pos, fields, radius, todo, cur, pidx, gidx, frame, pos0, pairLog, lastReset >>

update_position ==
    /\ stage = "update"
    /\ "update_position" \in pending
    /\ pos' = MoveAll(pos, fields)
    /\ pending' = pending \ {"update_position"}
    /\ UNCHANGED << world, fields, radius, stage, todo, cur, pidx, gidx, frame, pos0, pairLog, lastReset >>

update_size ==
    /\ stage = "update"
    /\ "update_size" \in pending
    /\ radius' = SizeAll(parent, hasParameters, params, fields, radius)
    /\ pending' = pending \ {"update_size"}
    /\ UNCHANGED << world, pos, fields, stage, todo, cur, pidx, gidx, frame, pos0, pairLog, lastReset >>

\* the Update schedule runs again
next_frame ==
    /\ stage = "update"
    /\ pending = {}
    /\ frame < MaxFrames
    /\ frame' = frame + 1
    /\ stage' = "reset"
    /\ pos0' = pos
    /\ pairLog' = << >>
    /\ UNCHANGED << world, pos, fields, radius, todo, cur, pidx, gidx, pending, lastReset >>

Next ==
    \/ reset_fields
    \/ \E c \in Creatures : calculate_fields_creature(c)
    \/ calculate_fields_pair
    \/ calculate_fields_growth
    \/ calculate_fields_return
    \/ update_position
    \/ update_size
    \/ next_frame

Spec == Init /\ [][Next]_vars

\* ------------------------------------------------- the systems as functions
RECURSIVE FoldPairs(_, _, _, _, _)
\* the pair loop of calculate_fields over the first k pairs
FoldPairs(f, ps, prm, pairs, k) ==
    IF k = 0 THEN f
    ELSE PairUpdate(FoldPairs(f, ps, prm, pairs, k - 1), ps, prm, pairs[k][1], pairs[k][2])

RECURSIVE FoldGrowth(_, _, _, _)
\* the growth loop of calculate_fields over the first k children
FoldGrowth(f, prm, ch, k) ==
    IF k = 0 THEN f
    ELSE GrowthUpdate(FoldGrowth(f, prm, ch, k - 1), prm, ch[k])

\* one iteration of the outer loop of calculate_fields
CreatureStep(f, ps, par, prms, c) ==
    LET ch == Children(par, c)
        pairs == PairList(ch)
    IN  FoldGrowth(FoldPairs(f, ps, prms[c], pairs, Len(pairs)), prms[c], ch, Len(ch))

RECURSIVE CalculateAll(_, _, _, _, _, _)
\* the outer loop of calculate_fields over the creatures c, c+1, ..
CalculateAll(f, ps, par, hasP, prms, c) ==
    IF c > MaxCreatures THEN f
    ELSE CalculateAll(IF c \in CreatureQuery(par, hasP)
                      THEN CreatureStep(f, ps, par, prms, c) ELSE f,
                      ps, par, hasP, prms, c + 1)

\* reset_fields, then calculate_fields
StepFields(f, ps, par, hasP, prms) ==
    CalculateAll(ResetAll(par, prms, f), ps, par, hasP, prms, 1)

\* ------------------------------------------------------------------ claims
ChildIndex(ch, p) == CHOOSE k \in 1 .. Len(ch) : ch[k] = p
Owned(p) == parent[p] # NoParent
InQuery(p) == parent[p] \in CreatureQuery(parent, hasParameters)
FieldsFinite(f) ==
    IsFin(f.R_val) /\ IsFin(f.U_val) /\ VIsFin(f.R_grad) /\ VIsFin(f.U_grad)
Baseline(prm) ==
    [ R_val |-> repulsion_field(Fin(0), prm.c_rep)[1],
      U_val |-> radial_field(Fin(0), prm.mu_k, prm.sigma_k, prm.w_k)[1] ]
LastPair == pairLog[Len(pairLog)]

\* C1: processing a pair (i, j) at a distance r > 0 changes R_val of i and of j
\* by the same amount (by nothing unless r < 1) and U_val of i and of j by the
\* same amount, changes R_grad and U_grad of i by the negative of the change
\* of j, and leaves the Fields of every other particle as they were.
C1_PairSymmetry ==
    [][ (stage = "calculate" /\ cur # 0 /\ pidx' = pidx + 1) =>
        LET pr == PairList(Children(parent, cur))[pidx + 1]
            i == pr[1]
            j == pr[2]
            r == VDistance(pos[i], pos[j])
        IN  (IsFin(r) /\ r.v > 0 /\ FieldsFinite(fields[i]) /\ FieldsFinite(fields[j])) =>
              /\ \A q \in Particles \ {i, j} : fields'[q] = fields[q]
              /\ FieldsFinite(fields'[i]) /\ FieldsFinite(fields'[j])
              /\ FSub(fields'[i].R_val, fields[i].R_val)
                   = FSub(fields'[j].R_val, fields[j].R_val)
              /\ FSub(fields'[i].U_val, fields[i].U_val)
                   = FSub(fields'[j].U_val, fields[j].U_val)
              /\ VSub(fields'[i].R_grad, fields[i].R_grad)
                   = VNeg(VSub(fields'[j].R_grad, fields[j].R_grad))
              /\ VSub(fields'[i].U_grad, fields[i].U_grad)
                   = VNeg(VSub(fields'[j].U_grad, fields[j].U_grad))
              /\ (r.v >= SCALE =>
                    /\ fields'[i].R_val = fields[i].R_val
                    /\ fields'[i].R_grad = fields[i].R_grad
                    /\ fields'[j].R_grad = fields[j].R_grad)
      ]_vars

\* a pair at a distance 0 < r < 1 has just been processed and has pushed its
\* two particles apart with opposite, non-zero repulsion and potential gradients
C1_Witness ==
    /\ stage = "calculate" /\ cur # 0 /\ pidx = 3
    /\ LET i == LastPair[2]
           j == LastPair[3]
           r == VDistance(pos[i], pos[j])
       IN  /\ IsFin(r) /\ r.v > 0 /\ r.v < SCALE
           /\ FieldsFinite(fields[i]) /\ FieldsFinite(fields[j])
           /\ fields[i].R_grad # VZero
           /\ fields[i].U_grad # VZero
           /\ fields[i].R_grad = VNeg(fields[j].R_grad)

\* C2 (as the claim states it): no gradient and no translation is ever NaN or
\* infinite, coincident particles included.
C2_NoUndefinedValue ==
    \A p \in Particles :
        /\ VIsFin(fields[p].R_grad)
        /\ VIsFin(fields[p].U_grad)
        /\ VIsFin(fields[p].E_grad)
        /\ VIsFin(pos[p])

\* while calculate_fields runs: the number of children of creature c whose
\* growth correction has run
GrowthCount(c) ==
    IF c \notin CreatureQuery(parent, hasParameters) THEN 0
    ELSE IF stage # "calculate" \/ c \in todo THEN 0
    ELSE IF c = cur THEN gidx
    ELSE Len(Children(parent, c))

\* what the growth loop must leave in the Fields fp of a particle whose complete
\* sums are a
GrowthFrom(fp, a, prm) ==
    LET dG == radial_field(a.U_val, prm.mu_g, prm.sigma_g, Fin(SCALE))[2]
    IN  /\ fp.R_val = a.R_val
        /\ fp.R_grad = a.R_grad
        /\ fp.U_val = a.U_val
        /\ fp.U_grad = a.U_grad
        /\ fp.E_grad = VSub(a.R_grad, VMulS(a.U_grad, dG))

\* C3: while calculate_fields runs, a particle whose growth correction has run
\* holds in R_val, R_grad, U_val and U_grad the contribution of every pair of
\* its creature, and its E_grad is R_grad - dG * U_grad computed from these
\* complete sums.
C3_GrowthAfterAllPairs ==
    \A c \in Creatures :
        GrowthCount(c) > 0 =>
            LET ch == Children(parent, c)
                pairs == PairList(ch)
                acc == FoldPairs(ResetAll(parent, params, fields), pos0, params[c],
                                 pairs, Len(pairs))
            IN  \A k \in 1 .. GrowthCount(c) :
                    GrowthFrom(fields[ch[k]], acc[ch[k]], params[c])

\* the first child of a creature of three has been corrected, after all three
\* pairs, and its growth term is not zero
C3_Witness ==
    /\ stage = "calculate" /\ cur # 0 /\ gidx = 1
    /\ Len(Children(parent, cur)) = 3 /\ pidx = 3
    /\ LET p == Children(parent, cur)[1]
       IN  /\ VIsFin(fields[p].E_grad)
           /\ fields[p].E_grad # VZero
           /\ fields[p].E_grad # fields[p].R_grad

\* the state reset_fields leaves
JustReset ==
    /\ stage = "calculate" /\ cur = 0 /\ pairLog = << >>
    /\ todo = CreatureQuery(parent, hasParameters)

\* C4: pairs are accumulated only in a frame whose reset has run, and right
\* after the reset every particle with a parent holds the baseline of its own
\* creature's Parameters, with all three gradients zero.
C4_ResetBaseline ==
    /\ stage \in {"calculate", "update"} => lastReset = frame
    /\ pairLog # << >> => lastReset = frame
    /\ JustReset =>
         \A p \in Particles :
            Owned(p) =>
              /\ fields[p].R_val = Baseline(params[parent[p]]).R_val
              /\ fields[p].U_val = Baseline(params[parent[p]]).U_val
              /\ fields[p].R_grad = VZero
              /\ fields[p].U_grad = VZero
              /\ fields[p].E_grad = VZero

\* the reset of the second frame has overwritten the Fields of a particle that
\* the first frame had moved, next to a particle of a creature with other
\* Parameters
C4_Witness ==
    /\ JustReset /\ frame = 2
    /\ \E p, q \in Particles :
         /\ Owned(p) /\ Owned(q)
         /\ pos[p] \notin StartPositions
         /\ fields[p].R_val = Fin(SCALE \div 2)
         /\ fields[q].R_val = Fin(SCALE)
         /\ fields[q].U_val # Fin(0)

\* the frame is over: every system of the Update schedule has run
FrameOver == stage = "update" /\ pending = {}

\* C5: at the end of a frame the Fields and the translations are those that
\* reset_fields, calculate_fields and update_position compute from the
\* translations at the start of the frame and the Parameters, starting from
\* Fields::default(): what the Fields held before the frame has no influence.
C5_StepIsFunctionOfPositions ==
    FrameOver =>
        LET ref == StepFields([p \in Particles |-> DefaultFields], pos0, parent,
                              hasParameters, params)
        IN  /\ fields = ref
            /\ pos = MoveAll(pos0, ref)

\* the second frame is over, it started from the non-default Fields the first
\* frame had left, and it has moved a particle
C5_Witness ==
    /\ FrameOver /\ frame = 2
    /\ \E p \in Particles :
         /\ InQuery(p)
         /\ pos0[p] \notin StartPositions
         /\ VIsFin(pos[p])
         /\ pos[p] # pos0[p]

\* C6 (as the claim states it): with a particle that has no parent, or whose
\* parent has no Parameters, no frame gets as far as a completed
\* update_position.
C6_InvalidParentIsFatal ==
    (\E p \in Particles : ~Owned(p) \/ ~hasParameters[parent[p]]) =>
        ~(stage = "update" /\ "update_position" \notin pending)

\* the world in which only creature c and its particles are left: the other
\* particles have lost their parent and sit at the origin, the other creatures
\* have lost their Parameters
AloneParent(c) == [q \in Particles |-> IF parent[q] = c THEN c ELSE NoParent]
AloneHas(c) == [d \in Creatures |-> d = c]
AloneParams(c) == [d \in Creatures |-> IF d = c THEN params[c] ELSE DefaultParameters]
AlonePos(c) == [q \in Particles |-> IF parent[q] = c THEN pos0[q] ELSE VZero]

\* C7: at the end of a frame the Fields and the translation of every particle
\* of a creature are those the creature gets on its own, in a world without
\* the other creatures and their particles.
C7_CreaturesAreIsolated ==
    FrameOver =>
        \A c \in CreatureQuery(parent, hasParameters) :
            LET ref == StepFields([p \in Particles |-> DefaultFields], AlonePos(c),
                                  AloneParent(c), AloneHas(c), AloneParams(c))
            IN  \A p \in Particles :
                    parent[p] = c =>
                        /\ fields[p] = ref[p]
                        /\ pos[p] = MoveOne(pos0[p], ref[p])

\* a frame is over in a world of two creatures with different Parameters, one
\* of them with two particles close enough to repel each other
C7_Witness ==
    /\ FrameOver
    /\ CreatureQuery(parent, hasParameters) = {1, 2}
    /\ params[1] # params[2]
    /\ \E p, q \in Particles :
         /\ p # q /\ parent[p] = parent[q]
         /\ VIsFin(fields[p].E_grad)
         /\ fields[p].E_grad # VZero

\* the pairs logged for creature c, in order
RECURSIVE PairsOf(_, _)
PairsOf(log, c) ==
    IF log = << >> THEN << >>
    ELSE (IF Head(log)[1] = c THEN << << Head(log)[2], Head(log)[3] >> >> ELSE << >>)
         \o PairsOf(Tail(log), c)

\* the pair loop of creature c has finished in this frame
PairLoopDone(c) ==
    /\ c \in CreatureQuery(parent, hasParameters)
    /\ \/ stage = "update"
       \/ /\ stage = "calculate"
          /\ c \notin todo
          /\ c = cur => pidx >= Len(PairList(Children(parent, c)))

\* C8: no pair is logged for an entity outside the query; a logged pair is two
\* distinct children of its creature, the first before the second in the
\* children order, and is logged once; when the pair loop of a creature of n
\* children has finished, n*(n-1)/2 pairs are logged for it, and every two
\* children have been paired.
C8_EachPairOnce ==
    \A c \in Creatures :
        LET ch == Children(parent, c)
            n == Len(ch)
            lg == PairsOf(pairLog, c)
            members == { ch[k] : k \in 1 .. n }
        IN  /\ \A k \in 1 .. Len(lg) :
                /\ lg[k][1] \in members /\ lg[k][2] \in members
                /\ lg[k][1] # lg[k][2]
                /\ ChildIndex(ch, lg[k][1]) < ChildIndex(ch, lg[k][2])
                /\ \A m \in 1 .. Len(lg) : (m # k) => { lg[m][1], lg[m][2] } # { lg[k][1], lg[k][2] }
            /\ c \notin CreatureQuery(parent, hasParameters) => lg = << >>
            /\ n <= 1 => lg = << >>
            /\ PairLoopDone(c) =>
                /\ 2 * Len(lg) = n * (n - 1)
                /\ \A a, b \in members :
                      a # b => \E k \in 1 .. Len(lg) : { lg[k][1], lg[k][2] } = { a, b }

\* calculate_fields has returned after logging the three pairs of a creature of
\* three children
C8_Witness ==
    /\ stage = "update"
    /\ \E c \in Creatures : Len(Children(parent, c)) = 3 /\ Len(PairsOf(pairLog, c)) = 3

\* C9: outside the update stage the translations are those of the start of the
\* frame; a translation changes only in the step of update_position, which
\* runs once per frame after calculate_fields has returned, moves every
\* particle by -0.1 times its own E_grad and changes no Fields.
C9_SynchronousMove ==
    [][ /\ stage # "update" => pos = pos0
        /\ (stage = "update" /\ "update_position" \in pending) => pos = pos0
        /\ pos' # pos => (stage = "update" /\ "update_position" \in pending
                          /\ "update_position" \notin pending')
        /\ ("update_position" \in pending /\ "update_position" \notin pending') =>
              /\ stage = "update" /\ todo = {} /\ cur = 0
              /\ fields' = fields
              /\ \A p \in Particles :
                    pos'[p] = VAdd(pos[p], VMulS(VNeg(fields[p].E_grad), Fin(100)))
      ]_vars

\* update_position has run: one particle has moved, another has stayed
C9_Witness ==
    /\ stage = "update" /\ "update_position" \notin pending
    /\ \E p, q \in Particles :
         /\ VIsFin(pos[p]) /\ pos[p] # pos0[p]
         /\ fields[p].E_grad # VZero
         /\ pos[q] = pos0[q]

\* C10: when update_size is about to read, every R_val it reads was reset in
\* this frame, is finite and at least the baseline 0.5 * c_rep of its creature;
\* with c_rep > 0 it is not the default 0.0 and R_val * 5.0 is not zero; and the
\* radius update_size has set is finite.
C10_SizeReadsResetValue ==
    /\ (stage = "update" /\ "update_size" \in pending) =>
          /\ lastReset = frame
          /\ \A p \in Particles :
                InQuery(p) =>
                  LET c_rep == params[parent[p]].c_rep
                      R == fields[p].R_val
                  IN  /\ IsFin(R)
                      /\ R.v >= FMul(Fin(SCALE \div 2), c_rep).v
                      /\ c_rep.v > 0 =>
                            (R # DefaultFields.R_val /\ FMul(R, Fin(5 * SCALE)) # Fin(0))
    /\ (stage = "update" /\ "update_size" \notin pending) =>
          \A p \in Particles :
              (InQuery(p) /\ params[parent[p]].c_rep.v > 0) =>
                  (IsFin(radius[p]) /\ radius[p].v > 0)

\* update_size has run in the first frame on a particle with a neighbour in
\* repulsion range, whose R_val exceeds its baseline, and has shrunk its mesh
C10_Witness ==
    /\ stage = "update" /\ "update_size" \notin pending /\ frame = 1
    /\ \E p \in Particles :
         /\ InQuery(p)
         /\ fields[p].R_val.v > FMul(Fin(SCALE \div 2), params[parent[p]].c_rep).v
         /\ radius[p] # Fin(SCALE \div 2)
         /\ radius[p] = FDiv(params[parent[p]].c_rep, FMul(fields[p].R_val, Fin(5 * SCALE)))

====
